---- MODULE Spec2Model ----
(***************************************************************************)
(* Cart-to-daily-account settlement pipeline of the point-of-sale backend: *)
(* carts and cart items under stock constraints (CartService), the stock   *)
(* ledger (StockRepository / StockService), line pricing, and the daily    *)
(* close / reopen of DailyAccountService.                                  *)
(*                                                                         *)
(* Units.  Money is counted in cents, quantities in thousandths (the       *)
(* schemas allow 2 and 3 decimal places), rates in whole percent.  Every   *)
(* request runs in one transaction (get_db): a handler is one atomic       *)
(* action, and a handler that raises leaves the tables as they were and    *)
(* only records its outcome in `last`.                                     *)
(***************************************************************************)
EXTENDS Integers, Sequences, FiniteSets, Bags, TLC

\* ------------------------------------------------------------------ bounds
MaxCarts == 2          \* carts ever created
MaxCartItemId == 2     \* cart item rows ever created (ids are never reused)
MaxQty == 2            \* largest quantity of a request, in steps of QtyStep
NumDates == 2          \* calendar days the clock runs through

\* Three decimal places of a quantity (Field(decimal_places=3)).
QtyScale == 1000

\* Half a unit: the step between the quantities tried.
QtyStep == QtyScale \div 2

\* The model's catalog, desks and actors.
Items == {1, 2}
Desks == {"A"}
Users == {"admin", "employee"}
Dates == 1..NumDates
CartIds == 1..MaxCarts
Quantities == {k * QtyStep : k \in 1..MaxQty}
StockQuantities == {k * QtyStep : k \in 0..MaxQty}

NoEntry == -1          \* no stock_entries row for the item
NoQty == -1            \* a request body without a quantity
NoDesk == "none"       \* desk_number IS NULL
NoUser == "none"       \* closed_by IS NULL
NoDate == 0            \* closed_at IS NULL

\* The quantities a return request may carry: none, valid ones, 0, negative,
\* and more than any row holds.
ReturnQuantities ==
    {k * QtyStep : k \in 1..(MaxQty + 1)} \cup {NoQty, 0, 0 - QtyStep}

\* The threadpool workers that may hold a request between its reads and its
\* writes, and the mark of an idle worker.
Workers == {1, 2}
NoRequest == [op |-> "none"]

\* The catalog rows the model draws from: unit_price in cents, rates in percent.
Profiles ==
    { [unit_price |-> 3,  discount_rate |-> 0,  tax_rate |-> 0],
      [unit_price |-> 25, discount_rate |-> 50, tax_rate |-> 10] }

VARIABLES
    carts,                \* table carts, in id order: Seq of [status, desk_number, created_date]
    cart_items,           \* table cart_items: set of [id, cart_id, item_id, quantity]
    next_cart_item_id,    \* AUTOINCREMENT of cart_items.id
    stock,                \* table stock_entries: item_id -> quantity, or NoEntry
    items,                \* table items: item_id -> [unit_price, discount_rate, tax_rate]
    daily_accounts,       \* table daily_accounts, in id order
    daily_account_items,  \* table daily_account_items: bag of rows without their ids
    today,                \* the current calendar day
    last,                 \* the last request answered: [op, code]
    pending               \* requests between their reads and their writes, by worker

vars == <<carts, cart_items, next_cart_item_id, stock, items, daily_accounts,
          daily_account_items, today, last, pending>>

tables == <<carts, cart_items, next_cart_item_id, stock, items, daily_accounts,
            daily_account_items>>

\* ----------------------------------------------------------------- pricing

\* Decimal.quantize(Decimal("0.01"), ROUND_HALF_UP) of the value n/d + err*eps,
\* n >= 0, where eps is smaller than any money step: a value a hair under a
\* half cent rounds down.
_money(n, d, err) ==
    IF 2 * (n % d) = d /\ err < 0 THEN n \div d ELSE (2 * n + d) \div (2 * d)

\* Sign of float(p) - p for a price of c cents, 0 <= c <= 100: Item.from_row
\* builds Decimal(row["unit_price"]) from the REAL column, i.e. the exact binary
\* value (Decimal(0.03) = 0.029999999999999998..., Decimal(0.25) = 0.25).
FloatErr(c) ==
    IF c % 25 = 0 THEN 0
    ELSE IF c \in {3, 6, 9, 12, 15, 18, 21, 24, 29, 30, 31, 35, 36, 37, 41, 42, 43,
                   47, 48, 49, 57, 58, 59, 60, 61, 62, 69, 70, 71, 72, 73, 74, 82,
                   83, 84, 85, 86, 87, 94, 95, 96, 97, 98, 99}
         THEN -1
    ELSE 1

Line(unit_price, err, quantity, discount_rate, tax_rate) ==
    LET line_subtotal == _money(unit_price * quantity, QtyScale, err)
        line_discount == _money(line_subtotal * discount_rate, 100, 0)
        taxable == line_subtotal - line_discount
        line_tax == _money(taxable * tax_rate, 100, 0)
    IN  [line_subtotal |-> line_subtotal, line_discount |-> line_discount,
         line_tax |-> line_tax, line_total |-> taxable + line_tax]

\* CartService._calculate_line: the item comes from Item.from_row.
_calculate_line(item, quantity) ==
    Line(item.unit_price, FloatErr(item.unit_price), quantity,
         item.discount_rate, item.tax_rate)

\* ------------------------------------------------------------------- state

Init ==
    /\ carts = <<>>
    /\ cart_items = {}
    /\ next_cart_item_id = 1
    /\ stock \in [Items -> {NoEntry, MaxQty * QtyStep}]
    /\ items \in [Items -> Profiles]
    /\ daily_accounts = <<>>
    /\ daily_account_items = EmptyBag
    /\ today = 1
    /\ last = [op |-> "init", code |-> "ok"]
    /\ pending = [w \in Workers |-> NoRequest]

Fail(op, code) ==
    /\ last' = [op |-> op, code |-> code]
    /\ UNCHANGED <<tables, today, pending>>

\* The status a new carts row gets: CartRepository.create does not set the
\* column, the row takes the column's default.
DefaultCartStatus == "draft"

create_cart ==
    /\ Len(carts) < MaxCarts
    /\ carts' = Append(carts, [status |-> DefaultCartStatus, desk_number |-> NoDesk,
                               created_date |-> today])
    /\ last' = [op |-> "create_cart", code |-> "ok"]
    /\ UNCHANGED <<cart_items, next_cart_item_id, stock, items, daily_accounts,
                   daily_account_items, today, pending>>

\* ------------------------------------------------------------ cart service

ItemIds == Items \cup {3}              \* 3 is not in the catalog
CartItemIds == 1..MaxCartItemId

\* CartService.get_cart: the cart row or 404.
CartExists(cart_id) == cart_id \in 1..Len(carts)

\* _ensure_cart_editable letting completed carts through.
_ensure_cart_editable_not_deleted(cart) == cart.status # "deleted"

\* CartService._ensure_cart_editable: only draft carts pass.
_ensure_cart_editable(cart) == cart.status = "draft"

\* _ensure_stock_available tolerating one step more than the stock holds.
_ensure_stock_available_off(stock_quantity, desired_quantity) ==
    ~(desired_quantity > stock_quantity + QtyStep)

\* CartService._ensure_stock_available: passes unless desired > stock.quantity.
_ensure_stock_available(stock_quantity, desired_quantity) ==
    ~(desired_quantity > stock_quantity)

\* CartRepository.get_cart_item_by_id (a set of at most one row).
get_cart_item_by_id(cart_item_id) == {r \in cart_items : r.id = cart_item_id}

\* get_cart_item_by_cart_and_item matching the item in any other cart only.
get_cart_item_by_other_cart_and_item(cart_id, item_id) ==
    {r \in cart_items : r.cart_id # cart_id /\ r.item_id = item_id}

\* CartRepository.get_cart_item_by_cart_and_item.
get_cart_item_by_cart_and_item(cart_id, item_id) ==
    {r \in cart_items : r.cart_id = cart_id /\ r.item_id = item_id}

\* CartRepository.list_cart_items_by_cart.
list_cart_items_by_cart(cart_id) == {r \in cart_items : r.cart_id = cart_id}

\* _get_cart_item taking the row of the id from whichever cart holds it (for
\* comparison).
_get_cart_item_any_cart(cart_id, cart_item_id) ==
    IF get_cart_item_by_id(cart_item_id) # {} THEN get_cart_item_by_id(cart_item_id)
    ELSE get_cart_item_by_cart_and_item(cart_id, cart_item_id)

\* CartService._get_cart_item: by row id within the cart, else by item id
\* within the cart; empty when neither finds a row (404).
_get_cart_item(cart_id, cart_item_id) ==
    LET by_id == {r \in get_cart_item_by_id(cart_item_id) : r.cart_id = cart_id}
    IN  IF by_id # {} THEN by_id
        ELSE get_cart_item_by_cart_and_item(cart_id, cart_item_id)

\* adjust_quantity with the restoring direction lost.
adjust_quantity_no_restore(st, item_id, delta) ==
    IF st[item_id] = NoEntry \/ delta > 0 THEN st
    ELSE [st EXCEPT ![item_id] = st[item_id] + delta]

\* StockRepository.adjust_quantity: UPDATE ... SET quantity = quantity + delta
\* WHERE item_id = ?; no row, no change.
adjust_quantity(st, item_id, delta) ==
    IF st[item_id] = NoEntry THEN st
    ELSE [st EXCEPT ![item_id] = st[item_id] + delta]

\* CHECK(quantity >= 0) of stock_entries.
StockCheck(st) == \A i \in Items : st[i] = NoEntry \/ st[i] >= 0

Ok(op) == last' = [op |-> op, code |-> "ok"]

add_item(cart_id, item_id, quantity) ==
    LET op == "add_item" IN
    IF ~CartExists(cart_id) THEN Fail(op, "NotFound")
    ELSE IF ~_ensure_cart_editable(carts[cart_id]) THEN Fail(op, "Conflict")
    ELSE IF item_id \notin Items THEN Fail(op, "NotFound")
    ELSE IF stock[item_id] = NoEntry THEN Fail(op, "Conflict")
    ELSE IF get_cart_item_by_cart_and_item(cart_id, item_id) # {}
         THEN Fail(op, "Conflict")
    ELSE IF ~_ensure_stock_available(stock[item_id], quantity)
         THEN Fail(op, "Conflict")
    ELSE LET st == adjust_quantity(stock, item_id, -quantity) IN
         IF ~StockCheck(st) THEN Fail(op, "ServerError")
         ELSE /\ next_cart_item_id <= MaxCartItemId
              /\ cart_items' = cart_items \cup
                    {[id |-> next_cart_item_id, cart_id |-> cart_id,
                      item_id |-> item_id, quantity |-> quantity]}
              /\ next_cart_item_id' = next_cart_item_id + 1
              /\ stock' = st
              /\ Ok(op)
              /\ UNCHANGED <<carts, items, daily_accounts, daily_account_items, today, pending>>

update_item(cart_id, cart_item_id, quantity) ==
    LET op == "update_item" IN
    IF ~CartExists(cart_id) THEN Fail(op, "NotFound")
    ELSE IF ~_ensure_cart_editable(carts[cart_id]) THEN Fail(op, "Conflict")
    ELSE IF _get_cart_item(cart_id, cart_item_id) = {} THEN Fail(op, "NotFound")
    ELSE
      LET cart_item == CHOOSE r \in _get_cart_item(cart_id, cart_item_id) : TRUE
          delta == quantity - cart_item.quantity
      IN
      IF quantity = 0 THEN
         LET st == adjust_quantity(stock, cart_item.item_id, cart_item.quantity) IN
         /\ stock' = st
         /\ cart_items' = cart_items \ get_cart_item_by_id(cart_item.id)
         /\ Ok(op)
         /\ UNCHANGED <<carts, next_cart_item_id, items, daily_accounts,
                        daily_account_items, today, pending>>
      ELSE IF delta > 0 /\ stock[cart_item.item_id] = NoEntry
           THEN Fail(op, "Conflict")
      ELSE IF delta > 0 /\ ~_ensure_stock_available(stock[cart_item.item_id], delta)
           THEN Fail(op, "Conflict")
      ELSE LET st == adjust_quantity(stock, cart_item.item_id, -delta) IN
           IF ~StockCheck(st) THEN Fail(op, "ServerError")
           ELSE /\ cart_items' = (cart_items \ {cart_item}) \cup
                                 {[cart_item EXCEPT !.quantity = quantity]}
                /\ stock' = st
                /\ Ok(op)
                /\ UNCHANGED <<carts, next_cart_item_id, items, daily_accounts,
                               daily_account_items, today, pending>>

RECURSIVE RestoreAll(_, _)
\* The loop of clear_cart: one adjust_quantity per row.
RestoreAll(st, rows) ==
    IF rows = {} THEN st
    ELSE LET ci == CHOOSE r \in rows : TRUE
         IN  RestoreAll(adjust_quantity(st, ci.item_id, ci.quantity), rows \ {ci})

clear_cart(cart_id) ==
    LET op == "clear_cart" IN
    IF ~CartExists(cart_id) THEN Fail(op, "NotFound")
    ELSE IF ~_ensure_cart_editable(carts[cart_id]) THEN Fail(op, "Conflict")
    ELSE /\ stock' = RestoreAll(stock, list_cart_items_by_cart(cart_id))
         /\ cart_items' = cart_items \ list_cart_items_by_cart(cart_id)
         /\ Ok(op)
         /\ UNCHANGED <<carts, next_cart_item_id, items, daily_accounts,
                        daily_account_items, today, pending>>

\* quantity = NoQty is a request without a quantity (a full return).
\* The row kept with whatever quantity is left, none included.
\* The end of return_item deleting only below zero (for comparison).
returned_rows_below_zero(rows, cart_item, new_quantity) ==
    IF new_quantity < 0 THEN rows \ {cart_item}
    ELSE (rows \ {cart_item}) \cup {[cart_item EXCEPT !.quantity = new_quantity]}

returned_rows_kept(rows, cart_item, new_quantity) ==
    (rows \ {cart_item}) \cup {[cart_item EXCEPT !.quantity = new_quantity]}

\* The end of return_item: nothing left deletes the row (delete_cart_item),
\* otherwise the row gets the quantity left (update_cart_item_quantity).
returned_rows(rows, cart_item, new_quantity) ==
    IF new_quantity = 0 THEN rows \ {cart_item}
    ELSE (rows \ {cart_item}) \cup {[cart_item EXCEPT !.quantity = new_quantity]}

return_item(cart_id, cart_item_id, quantity) ==
    LET op == "return_item" IN
    IF ~CartExists(cart_id) THEN Fail(op, "NotFound")
    ELSE IF ~_ensure_cart_editable(carts[cart_id]) THEN Fail(op, "Conflict")
    ELSE IF get_cart_item_by_id(cart_item_id) = {} THEN Fail(op, "NotFound")
    ELSE
      LET cart_item == CHOOSE r \in get_cart_item_by_id(cart_item_id) : TRUE
          return_quantity == IF quantity # NoQty THEN quantity ELSE cart_item.quantity
          new_quantity == cart_item.quantity - return_quantity
      IN
      IF cart_item.cart_id # cart_id THEN Fail(op, "NotFound")
      ELSE IF return_quantity <= 0 THEN Fail(op, "BadRequest")
      ELSE IF return_quantity > cart_item.quantity THEN Fail(op, "BadRequest")
      ELSE /\ stock' = adjust_quantity(stock, cart_item.item_id, return_quantity)
           /\ cart_items' = returned_rows(cart_items, cart_item, new_quantity)
           /\ Ok(op)
           /\ UNCHANGED <<carts, next_cart_item_id, items, daily_accounts,
                          daily_account_items, today, pending>>

\* schemas.CartItemReturn: quantity absent, or a number greater than 0.
CartItemReturn(quantity) == quantity = NoQty \/ quantity > 0

\* POST /carts/{cart_id}/items/{cart_item_id}/return: the body is validated
\* before the handler runs; a body that fails is refused as invalid (422, of
\* the BadRequest/Validation class) and nothing is read or written.
return_cart_item(cart_id, cart_item_id, quantity) ==
    IF ~CartItemReturn(quantity) THEN Fail("return_item", "BadRequest")
    ELSE return_item(cart_id, cart_item_id, quantity)

\* _status_conflict guarding completed carts only.
_status_conflict_completed_only(current, status) ==
    current = "completed" /\ status # "completed"

\* The two rejections of update_cart_status: a completed cart asked for another
\* status, a deleted cart asked for another status.
_status_conflict(current, status) ==
    \/ current = "completed" /\ status # "completed"
    \/ current = "deleted" /\ status # "deleted"

\* update_cart_status emptying a cart it deletes, as clear_cart would (for
\* comparison).
update_cart_status_clearing(cart_id, status) ==
    LET op == IF status = "completed" THEN "complete_cart" ELSE "delete_cart" IN
    IF ~CartExists(cart_id) THEN Fail(op, "NotFound")
    ELSE IF _status_conflict(carts[cart_id].status, status) THEN Fail(op, "ServerError")
    ELSE /\ carts' = [carts EXCEPT ![cart_id].status = status]
         /\ stock' = IF status = "deleted"
                     THEN RestoreAll(stock, list_cart_items_by_cart(cart_id))
                     ELSE stock
         /\ cart_items' = IF status = "deleted"
                          THEN cart_items \ list_cart_items_by_cart(cart_id)
                          ELSE cart_items
         /\ Ok(op)
         /\ UNCHANGED <<next_cart_item_id, items, daily_accounts,
                        daily_account_items, today, pending>>

\* Requests for a status come from complete_cart and delete_cart only.  Inside
\* update_cart_status the parameter status hides the imported fastapi status
\* module: building either rejection evaluates status.HTTP_409_CONFLICT on the
\* CartStatus member, an AttributeError, so the request ends as a server error
\* with its transaction rolled back.
update_cart_status(cart_id, status) ==
    LET op == IF status = "completed" THEN "complete_cart" ELSE "delete_cart" IN
    IF ~CartExists(cart_id) THEN Fail(op, "NotFound")
    ELSE IF _status_conflict(carts[cart_id].status, status) THEN Fail(op, "ServerError")
    ELSE /\ carts' = [carts EXCEPT ![cart_id].status = status]
         /\ Ok(op)
         /\ UNCHANGED <<cart_items, next_cart_item_id, stock, items, daily_accounts,
                        daily_account_items, today, pending>>

complete_cart(cart_id) == update_cart_status(cart_id, "completed")

delete_cart(cart_id) == update_cart_status(cart_id, "deleted")

\* get_by_desk_number looking at draft carts only.
get_by_desk_number_draft(desk_number) ==
    {c \in 1..Len(carts) :
        carts[c].desk_number = desk_number /\ carts[c].status = "draft"}

\* CartRepository.get_by_desk_number: the ids of the carts holding the desk.
get_by_desk_number(desk_number) ==
    {c \in 1..Len(carts) : carts[c].desk_number = desk_number}

update_cart(cart_id, desk_number) ==
    LET op == "update_cart" IN
    IF ~CartExists(cart_id) THEN Fail(op, "NotFound")
    ELSE IF ~_ensure_cart_editable(carts[cart_id]) THEN Fail(op, "Conflict")
    ELSE IF desk_number # NoDesk /\ get_by_desk_number(desk_number) \ {cart_id} # {}
         THEN Fail(op, "Conflict")
    ELSE /\ carts' = [carts EXCEPT ![cart_id].desk_number = desk_number]
         /\ Ok(op)
         /\ UNCHANGED <<cart_items, next_cart_item_id, stock, items, daily_accounts,
                        daily_account_items, today, pending>>

RECURSIVE SumOver(_, _)
\* sum(row[field] for row in rows).
SumOver(rows, field) ==
    IF rows = {} THEN 0
    ELSE LET r == CHOOSE x \in rows : TRUE IN r[field] + SumOver(rows \ {r}, field)

\* A totals payload that is not zero (for comparison).
_empty_totals_one ==
    [subtotal |-> 1, discount_total |-> 0, tax_total |-> 0, total |-> 1]

\* CartService._empty_totals: a totals payload with zeroed values.
_empty_totals ==
    [subtotal |-> 0, discount_total |-> 0, tax_total |-> 0, total |-> 0]

\* The line items calculate_totals returns: one per row of the cart.
line_items(cart_id) ==
    {[id |-> r.id] @@ _calculate_line(items[r.item_id], r.quantity) :
        r \in list_cart_items_by_cart(cart_id)}

\* CartService.calculate_totals: the zeroed payload for a cart without rows,
\* else the sums of the lines of the cart's rows.
calculate_totals(cart_id) ==
    IF list_cart_items_by_cart(cart_id) = {} THEN _empty_totals
    ELSE
    LET lines == line_items(cart_id)
        subtotal == SumOver(lines, "line_subtotal")
        discount_total == SumOver(lines, "line_discount")
        tax_total == SumOver(lines, "line_tax")
    IN  [subtotal |-> subtotal, discount_total |-> discount_total,
         tax_total |-> tax_total,
         total |-> subtotal - discount_total + tax_total]

\* GET /carts/{cart_id}: get_cart (404 for an unknown id), then the summary;
\* nothing is written.
get_cart_summary(cart_id) ==
    IF ~CartExists(cart_id) THEN Fail("get_cart_summary", "NotFound")
    ELSE /\ Ok("get_cart_summary")
         /\ UNCHANGED <<tables, today, pending>>

\* ----------------------------------------------------------- stock service

add_to_stock(item_id, quantity) ==
    LET op == "add_to_stock" IN
    IF item_id \notin Items THEN Fail(op, "NotFound")
    ELSE IF stock[item_id] # NoEntry THEN Fail(op, "Conflict")
    ELSE /\ stock' = [stock EXCEPT ![item_id] = quantity]
         /\ Ok(op)
         /\ UNCHANGED <<carts, cart_items, next_cart_item_id, items, daily_accounts,
                        daily_account_items, today, pending>>

update_quantity(item_id, quantity) ==
    LET op == "update_quantity" IN
    IF item_id \notin Items \/ stock[item_id] = NoEntry THEN Fail(op, "NotFound")
    ELSE /\ stock' = [stock EXCEPT ![item_id] = quantity]
         /\ Ok(op)
         /\ UNCHANGED <<carts, cart_items, next_cart_item_id, items, daily_accounts,
                        daily_account_items, today, pending>>

remove_from_stock(item_id) ==
    LET op == "remove_from_stock" IN
    IF item_id \notin Items \/ stock[item_id] = NoEntry THEN Fail(op, "NotFound")
    ELSE /\ stock' = [stock EXCEPT ![item_id] = NoEntry]
         /\ Ok(op)
         /\ UNCHANGED <<carts, cart_items, next_cart_item_id, items, daily_accounts,
                        daily_account_items, today, pending>>

\* ------------------------------------------------------------ item service

\* ItemService.update_item with unit_price, discount_rate and tax_rate given.
update_catalog_item(item_id, data) ==
    LET op == "update_catalog_item" IN
    IF item_id \notin Items THEN Fail(op, "NotFound")
    ELSE /\ items' = [items EXCEPT ![item_id] = data]
         /\ Ok(op)
         /\ UNCHANGED <<carts, cart_items, next_cart_item_id, stock, daily_accounts,
                        daily_account_items, today, pending>>

\* -------------------------------------------------------------- the clock

\* Midnight passes: date.today() and datetime.now() move to the next day.
Tick ==
    /\ today < NumDates
    /\ today' = today + 1
    /\ last' = [op |-> "tick", code |-> "ok"]
    /\ UNCHANGED <<tables, pending>>

\* --------------------------------------------------- daily account service

\* _get_carts_by_date passing over the carts marked deleted.
_get_carts_by_date_not_deleted(target_date) ==
    {c \in 1..Len(carts) :
        carts[c].created_date = target_date /\ carts[c].status # "deleted"}

\* DailyAccountService._get_carts_by_date / _get_todays_carts: every cart
\* created on the day, whatever its status.
_get_carts_by_date(target_date) ==
    {c \in 1..Len(carts) : carts[c].created_date = target_date}

\* DailyAccountService._aggregate_cart_items: one entry per item_id found in the
\* cart items of the carts, quantities summed, the line priced at the summed
\* quantity from Decimal(str(...)) of the catalog columns.
_aggregate_cart_items(cart_ids) ==
    LET rows == {r \in cart_items : r.cart_id \in cart_ids}
        ids == {r.item_id : r \in rows}
        entry(i) ==
            LET q == SumOver({r \in rows : r.item_id = i}, "quantity")
                line == Line(items[i].unit_price, 0, q,
                             items[i].discount_rate, items[i].tax_rate)
            IN  [item_id |-> i, quantity |-> q,
                 unit_price |-> items[i].unit_price,
                 discount_rate |-> items[i].discount_rate,
                 tax_rate |-> items[i].tax_rate,
                 line_subtotal |-> line.line_subtotal,
                 line_discount |-> line.line_discount,
                 line_tax |-> line.line_tax,
                 line_total |-> line.line_total]
    IN  {entry(i) : i \in ids}

\* Grand totals whose total leaves the tax out (for comparison).
_calculate_totals_untaxed(aggregated) ==
    LET subtotal == SumOver(aggregated, "line_subtotal")
        discount_total == SumOver(aggregated, "line_discount")
        tax_total == SumOver(aggregated, "line_tax")
    IN  [subtotal |-> subtotal, discount_total |-> discount_total,
         tax_total |-> tax_total,
         total |-> subtotal - discount_total]

\* DailyAccountService._calculate_totals.
_calculate_totals(aggregated) ==
    LET subtotal == SumOver(aggregated, "line_subtotal")
        discount_total == SumOver(aggregated, "line_discount")
        tax_total == SumOver(aggregated, "line_tax")
    IN  [subtotal |-> subtotal, discount_total |-> discount_total,
         tax_total |-> tax_total,
         total |-> subtotal - discount_total + tax_total]

\* DailyAccountRepository.get_by_date: the ids of the accounts of the date.
get_by_date(account_date) ==
    {a \in 1..Len(daily_accounts) : daily_accounts[a].account_date = account_date}

\* delete_items_by_account deleting nothing.
delete_items_by_account_none(bag, account_id) == bag

\* delete_items_by_account sparing the rows of items no cart holds any more.
delete_items_by_account_held(bag, account_id) ==
    [r \in {x \in DOMAIN bag :
               \/ x.account_id # account_id
               \/ ~\E c \in cart_items : c.item_id = x.item_id} |-> bag[r]]

\* DailyAccountRepository.delete_items_by_account.
delete_items_by_account(bag, account_id) ==
    [r \in {x \in DOMAIN bag : x.account_id # account_id} |-> bag[r]]

\* The create_item loop: one row per aggregated entry.
create_items(bag, account_id, aggregated) ==
    bag (+) SetToBag({[account_id |-> account_id] @@ e : e \in aggregated})

\* The guard never finding the day closed.
already_closed_never(accounts, existing) == FALSE

\* The guard with its test turned round: refusing when the account is open.
already_closed_open(accounts, existing) == \E a \in existing : ~accounts[a].is_closed

\* The guard of close_today / close_by_date: the day's account exists and is
\* closed (409).
already_closed(accounts, existing) == \E a \in existing : accounts[a].is_closed

\* The columns of a daily_accounts row that hold the day's figures.
Figures(account) ==
    [f \in {"subtotal", "discount_total", "tax_total", "total", "carts_count",
            "items_count"} |-> account[f]]

\* The body close_today and close_by_date share, as a function of the two
\* ledger tables: the outcome and the tables after it.  sum() over no entries
\* is the int 0, which has no quantize: the request dies with a server error.
\* The account is updated in place (update_totals, delete_items_by_account) or
\* created, its rows are written, and close_account marks it closed.
close_result(accounts, rows, account_date, user) ==
    LET existing == {a \in 1..Len(accounts) : accounts[a].account_date = account_date}
        cart_ids == _get_carts_by_date(account_date)
        aggregated == _aggregate_cart_items(cart_ids)
        totals == _calculate_totals(aggregated)
        figures == [subtotal |-> totals.subtotal,
                    discount_total |-> totals.discount_total,
                    tax_total |-> totals.tax_total, total |-> totals.total,
                    carts_count |-> Cardinality(cart_ids),
                    items_count |-> Cardinality(aggregated)]
        closing == [is_closed |-> TRUE, closed_at |-> today, closed_by |-> user,
                    updated_at |-> today]
        unchanged(code) == [code |-> code, daily_accounts |-> accounts,
                            daily_account_items |-> rows]
    IN
    IF already_closed(accounts, existing) THEN unchanged("Conflict")
    ELSE IF cart_ids = {} THEN unchanged("BadRequest")
    ELSE IF aggregated = {} THEN unchanged("ServerError")
    ELSE IF existing # {}
         THEN LET a == CHOOSE x \in existing : TRUE IN
              [code |-> "ok",
               daily_accounts |-> [accounts EXCEPT ![a] =
                    closing @@ [updated_by |-> user] @@ figures @@ accounts[a]],
               daily_account_items |->
                    create_items(delete_items_by_account(rows, a), a, aggregated)]
         ELSE LET a == Len(accounts) + 1 IN
              [code |-> "ok",
               daily_accounts |-> Append(accounts,
                    closing @@ figures @@
                    [account_date |-> account_date, created_by |-> user,
                     updated_by |-> user, created_at |-> today]),
               daily_account_items |-> create_items(rows, a, aggregated)]

close(op, account_date, user) ==
    LET r == close_result(daily_accounts, daily_account_items, account_date, user) IN
    IF r.code # "ok" THEN Fail(op, r.code)
    ELSE /\ daily_accounts' = r.daily_accounts
         /\ daily_account_items' = r.daily_account_items
         /\ Ok(op)
         /\ UNCHANGED <<carts, cart_items, next_cart_item_id, stock, items, today, pending>>

close_today(user) == close("close_today", today, user)

close_by_date(account_date, user) == close("close_by_date", account_date, user)

\* open_account also clearing the stored total.
\* A reopening that leaves the closing stamp on the row (for comparison).
open_row_stamped(account, opened_by) ==
    [account EXCEPT !.is_closed = FALSE,
                    !.updated_by = opened_by, !.updated_at = today]

open_row_reset(account, opened_by) ==
    [account EXCEPT !.is_closed = FALSE, !.closed_at = NoDate, !.closed_by = NoUser,
                    !.updated_by = opened_by, !.updated_at = today, !.total = 0]

\* DailyAccountRepository.open_account.
open_row(account, opened_by) ==
    [account EXCEPT !.is_closed = FALSE, !.closed_at = NoDate, !.closed_by = NoUser,
                    !.updated_by = opened_by, !.updated_at = today]

\* The body without its is_closed test: an open account is opened again.
open_result_unchecked(accounts, a, user) ==
    [code |-> "ok",
     daily_accounts |-> [accounts EXCEPT ![a] = open_row(accounts[a], user)]]

\* The body of open_account / open_by_date once the account row is found, as
\* a function of the accounts table.
open_result(accounts, a, user) ==
    IF ~accounts[a].is_closed THEN [code |-> "Conflict", daily_accounts |-> accounts]
    ELSE [code |-> "ok",
          daily_accounts |-> [accounts EXCEPT ![a] = open_row(accounts[a], user)]]

open(op, existing, user) ==
    IF existing = {} THEN Fail(op, "NotFound")
    ELSE LET r == open_result(daily_accounts, CHOOSE x \in existing : TRUE, user) IN
         IF r.code # "ok" THEN Fail(op, r.code)
         ELSE /\ daily_accounts' = r.daily_accounts
              /\ Ok(op)
              /\ UNCHANGED <<carts, cart_items, next_cart_item_id, stock, items,
                             daily_account_items, today, pending>>

\* DailyAccountRepository.get_by_id: the ids of the accounts with the id.
get_by_id(account_id) == {a \in 1..Len(daily_accounts) : a = account_id}

open_account(account_id, user) == open("open_account", get_by_id(account_id), user)

open_by_date(account_date, user) ==
    open("open_by_date", get_by_date(account_date), user)

\* ------------------------------------------------------ concurrent requests
\* Every request runs on its own connection (get_connection).  Its SELECTs run
\* outside a transaction; the first INSERT/UPDATE/DELETE begins one, which
\* holds SQLite's writer lock until commit or rollback.  A request is therefore
\* two steps when others run beside it: its reads and checks (begin_...), then
\* its writes from what it read (finish_...), one writer at a time.

Idle(w) == pending[w] = NoRequest

\* The stock the side-by-side requests start from, one step above the largest
\* request; stock restored from stale reads can grow without end and is
\* followed up to this quantity.
MaxStock == (MaxQty + 1) * QtyStep

\* What a request's transaction may write of the cart tables.
Written(rows, st, next_id) ==
    [cart_items |-> rows, stock |-> st, next_cart_item_id |-> next_id]

\* get_db dropping the except branch: what was written stays.
rollback_nothing(before, written) == written

\* get_db: on an exception conn.rollback() restores the tables as they were
\* when the transaction began, whatever it had written.
rollback(before, written) == before

\* UNIQUE(cart_id, item_id) of cart_items, checked by the INSERT.
cart_item_unique(rows, cart_id, item_id) ==
    ~\E r \in rows : r.cart_id = cart_id /\ r.item_id = item_id

\* add_item up to _ensure_stock_available: every read and check.
begin_add_item(w, cart_id, item_id, quantity) ==
    LET op == "add_item" IN
    /\ Idle(w)
    /\ IF ~CartExists(cart_id) THEN Fail(op, "NotFound")
       ELSE IF ~_ensure_cart_editable(carts[cart_id]) THEN Fail(op, "Conflict")
       ELSE IF item_id \notin Items THEN Fail(op, "NotFound")
       ELSE IF stock[item_id] = NoEntry THEN Fail(op, "Conflict")
       ELSE IF get_cart_item_by_cart_and_item(cart_id, item_id) # {}
            THEN Fail(op, "Conflict")
       ELSE IF ~_ensure_stock_available(stock[item_id], quantity)
            THEN Fail(op, "Conflict")
       ELSE /\ pending' = [pending EXCEPT ![w] =
                  [op |-> op, cart_id |-> cart_id, item_id |-> item_id,
                   quantity |-> quantity]]
            /\ UNCHANGED <<tables, today, last>>

\* add_item from create_cart_item on, for the request r on the tables t: the
\* INSERT, then the stock UPDATE, each under its table's constraints; an
\* IntegrityError ends the request in the except branch of get_db.
add_item_writes(r, t) ==
    LET inserted == Written(t.cart_items \cup
                        {[id |-> t.next_cart_item_id, cart_id |-> r.cart_id,
                          item_id |-> r.item_id, quantity |-> r.quantity]},
                        t.stock, t.next_cart_item_id + 1)
        adjusted == [inserted EXCEPT
                        !.stock = adjust_quantity(t.stock, r.item_id, -r.quantity)]
    IN  IF ~cart_item_unique(t.cart_items, r.cart_id, r.item_id)
        THEN [code |-> "ServerError", t |-> rollback(t, t)]
        ELSE IF ~StockCheck(adjusted.stock)
        THEN [code |-> "ServerError", t |-> rollback(t, inserted)]
        ELSE [code |-> "ok", t |-> adjusted]

finish_add_item(w) ==
    LET r == pending[w]
        out == add_item_writes(r, Written(cart_items, stock, next_cart_item_id))
    IN  /\ r.op = "add_item"
        /\ next_cart_item_id <= MaxCartItemId
        /\ cart_items' = out.t.cart_items
        /\ stock' = out.t.stock
        /\ next_cart_item_id' = out.t.next_cart_item_id
        /\ last' = [op |-> "add_item", code |-> out.code]
        /\ pending' = [pending EXCEPT ![w] = NoRequest]
        /\ UNCHANGED <<carts, items, daily_accounts, daily_account_items, today>>

\* update_item up to its last read: the row, and the stock when the quantity
\* goes up.
begin_update_item(w, cart_id, cart_item_id, quantity) ==
    LET op == "update_item" IN
    /\ Idle(w)
    /\ IF ~CartExists(cart_id) THEN Fail(op, "NotFound")
       ELSE IF ~_ensure_cart_editable(carts[cart_id]) THEN Fail(op, "Conflict")
       ELSE IF _get_cart_item(cart_id, cart_item_id) = {} THEN Fail(op, "NotFound")
       ELSE
         LET cart_item == CHOOSE r \in _get_cart_item(cart_id, cart_item_id) : TRUE
             delta == quantity - cart_item.quantity
         IN
         IF quantity # 0 /\ delta > 0 /\ stock[cart_item.item_id] = NoEntry
            THEN Fail(op, "Conflict")
         ELSE IF quantity # 0 /\ delta > 0
                 /\ ~_ensure_stock_available(stock[cart_item.item_id], delta)
            THEN Fail(op, "Conflict")
         ELSE /\ pending' = [pending EXCEPT ![w] =
                    [op |-> op, cart_id |-> cart_id, cart_item |-> cart_item,
                     quantity |-> quantity]]
              /\ UNCHANGED <<tables, today, last>>

\* update_item from its first write on, for the request r on the tables t, with
\* the row as r read it: quantity 0 restores the read quantity and deletes the
\* row by id; otherwise the row is set by id (no row, no change) and stock
\* moves by the delta computed from the read quantity.
update_item_writes(r, t) ==
    LET cart_item == r.cart_item
        delta == r.quantity - cart_item.quantity
        removed == Written({x \in t.cart_items : x.id # cart_item.id},
                           adjust_quantity(t.stock, cart_item.item_id, cart_item.quantity),
                           t.next_cart_item_id)
        set == Written({IF x.id = cart_item.id THEN [x EXCEPT !.quantity = r.quantity]
                        ELSE x : x \in t.cart_items},
                       t.stock, t.next_cart_item_id)
        adjusted == [set EXCEPT
                        !.stock = adjust_quantity(t.stock, cart_item.item_id, -delta)]
    IN  IF r.quantity = 0 THEN [code |-> "ok", t |-> removed]
        ELSE IF ~StockCheck(adjusted.stock)
        THEN [code |-> "ServerError", t |-> rollback(t, set)]
        ELSE [code |-> "ok", t |-> adjusted]

finish_update_item(w) ==
    LET r == pending[w]
        out == update_item_writes(r, Written(cart_items, stock, next_cart_item_id))
    IN  /\ r.op = "update_item"
        /\ out.t.stock[r.cart_item.item_id] <= MaxStock
        /\ cart_items' = out.t.cart_items
        /\ stock' = out.t.stock
        /\ next_cart_item_id' = out.t.next_cart_item_id
        /\ last' = [op |-> "update_item", code |-> out.code]
        /\ pending' = [pending EXCEPT ![w] = NoRequest]
        /\ UNCHANGED <<carts, items, daily_accounts, daily_account_items, today>>

\* The INSERT finding no second account of the date to refuse.
account_date_unique_off(accounts, account_date) == TRUE

\* account_date UNIQUE of daily_accounts, checked by the INSERT.
account_date_unique(accounts, account_date) ==
    ~\E a \in 1..Len(accounts) : accounts[a].account_date = account_date

\* close_by_date up to _calculate_totals: the account of the date, the carts
\* and the aggregated entries as read.
begin_close(w, account_date, user) ==
    LET op == "close_by_date"
        r == close_result(daily_accounts, daily_account_items, account_date, user)
        cart_ids == _get_carts_by_date(account_date)
    IN
    /\ Idle(w)
    /\ IF r.code # "ok" THEN Fail(op, r.code)
       ELSE /\ pending' = [pending EXCEPT ![w] =
                  [op |-> op, account_date |-> account_date, user |-> user,
                   existing |-> get_by_date(account_date),
                   carts_count |-> Cardinality(cart_ids),
                   aggregated |-> _aggregate_cart_items(cart_ids)]]
            /\ UNCHANGED <<tables, today, last>>

\* close_by_date from update_totals / create on, for the request r on the two
\* ledger tables: the account r read is rewritten by id, or a new account is
\* inserted when r read none; the rows are written and the account closed.
close_writes(r, accounts, rows) ==
    LET totals == _calculate_totals(r.aggregated)
        figures == [subtotal |-> totals.subtotal,
                    discount_total |-> totals.discount_total,
                    tax_total |-> totals.tax_total, total |-> totals.total,
                    carts_count |-> r.carts_count,
                    items_count |-> Cardinality(r.aggregated)]
        closing == [is_closed |-> TRUE, closed_at |-> today, closed_by |-> r.user,
                    updated_at |-> today]
    IN
    IF r.existing # {}
    THEN LET a == CHOOSE x \in r.existing : TRUE IN
         [code |-> "ok",
          daily_accounts |-> [accounts EXCEPT ![a] =
               closing @@ [updated_by |-> r.user] @@ figures @@ accounts[a]],
          daily_account_items |->
               create_items(delete_items_by_account(rows, a), a, r.aggregated)]
    ELSE IF ~account_date_unique(accounts, r.account_date)
    THEN [code |-> "ServerError", daily_accounts |-> accounts,
          daily_account_items |-> rows]
    ELSE LET a == Len(accounts) + 1 IN
         [code |-> "ok",
          daily_accounts |-> Append(accounts,
               closing @@ figures @@
               [account_date |-> r.account_date, created_by |-> r.user,
                updated_by |-> r.user, created_at |-> today]),
          daily_account_items |-> create_items(rows, a, r.aggregated)]

finish_close(w) ==
    LET r == pending[w]
        out == close_writes(r, daily_accounts, daily_account_items)
    IN  /\ r.op = "close_by_date"
        /\ daily_accounts' = out.daily_accounts
        /\ daily_account_items' = out.daily_account_items
        /\ last' = [op |-> "close_by_date", code |-> out.code]
        /\ pending' = [pending EXCEPT ![w] = NoRequest]
        /\ UNCHANGED <<carts, cart_items, next_cart_item_id, stock, items, today>>

\* ------------------------------------------------------------ the endpoints
\* The daily account routes with the dependency each declares for its caller.

\* One active user per role; a user is named by the role it holds.
Actors == Users \cup {"market_owner"}

role(current_user) == current_user

\* get_current_active_user: every active, undeleted user passes.
get_current_active_user(current_user) == current_user \in Actors

\* require_roles(...)._check: the user's role is one of the roles (else 403).
require_roles(roles, current_user) ==
    get_current_active_user(current_user) /\ role(current_user) \in roles

require_admin_or_owner(current_user) ==
    require_roles({"admin", "market_owner"}, current_user)

\* POST /daily-accounts/{id}/open
api_open_account(account_id, current_user) ==
    IF ~require_admin_or_owner(current_user) THEN Fail("open_account", "Forbidden")
    ELSE open_account(account_id, current_user)

\* POST /daily-accounts/close-by-date
api_close_by_date(account_date, current_user) ==
    IF ~require_admin_or_owner(current_user) THEN Fail("close_by_date", "Forbidden")
    ELSE close_by_date(account_date, current_user)

\* POST /daily-accounts/open-by-date
api_open_by_date(account_date, current_user) ==
    IF ~require_admin_or_owner(current_user) THEN Fail("open_by_date", "Forbidden")
    ELSE open_by_date(account_date, current_user)

\* POST /daily-accounts/close
api_close_today(current_user) ==
    get_current_active_user(current_user) /\ close_today(current_user)

\* The three analysis routes: a query over the ledger, answered to the caller
\* the route's dependency lets through; nothing is written.
analysis(op, current_user) ==
    /\ get_current_active_user(current_user)
    /\ Ok(op)
    /\ UNCHANGED <<tables, today, pending>>

\* GET /daily-accounts/analysis/item-sales
get_item_sales(current_user) == analysis("get_item_sales", current_user)

\* GET /daily-accounts/analysis/top-sellers
get_top_sellers(current_user) == analysis("get_top_sellers", current_user)

\* GET /daily-accounts/analysis/by-category
get_sales_by_category(current_user) == analysis("get_sales_by_category", current_user)

AccountIds == 1..NumDates

Next ==
    \/ create_cart
    \/ \E c \in CartIds, i \in ItemIds, q \in Quantities : add_item(c, i, q)
    \/ \E c \in CartIds, ci \in CartItemIds, q \in Quantities \cup {0} :
          update_item(c, ci, q)
    \/ \E c \in CartIds : clear_cart(c)
    \/ \E c \in CartIds, ci \in CartItemIds, q \in Quantities \cup {NoQty} :
          return_item(c, ci, q)
    \/ \E c \in CartIds : complete_cart(c)
    \/ \E c \in CartIds : delete_cart(c)
    \/ \E c \in CartIds, d \in Desks \cup {NoDesk} : update_cart(c, d)
    \/ \E c \in CartIds : get_cart_summary(c)
    \/ \E i \in ItemIds, q \in StockQuantities : add_to_stock(i, q)
    \/ \E i \in ItemIds, q \in StockQuantities : update_quantity(i, q)
    \/ \E i \in ItemIds : remove_from_stock(i)
    \/ \E i \in ItemIds, p \in Profiles : update_catalog_item(i, p)
    \/ Tick
    \/ \E u \in Users : close_today(u)
    \/ \E d \in Dates, u \in Users : close_by_date(d, u)
    \/ \E a \in AccountIds, u \in Users : open_account(a, u)
    \/ \E d \in Dates, u \in Users : open_by_date(d, u)

Spec == Init /\ [][Next]_vars

\* ---------------------------------------------------------- specifications
\* The full system is explored in parts, each with the requests of its part and
\* the inputs that matter to it.

\* The catalog the cart and stock parts run with.
Catalog == [i \in Items |-> IF i = 1
                THEN [unit_price |-> 3, discount_rate |-> 0, tax_rate |-> 0]
                ELSE [unit_price |-> 25, discount_rate |-> 50, tax_rate |-> 10]]

\* Carts: every cart request, with stock fixed from outside.
InitCart == Init /\ items = Catalog

NextCart ==
    \/ create_cart
    \/ \E c \in CartIds, i \in ItemIds, q \in Quantities : add_item(c, i, q)
    \/ \E c \in CartIds, ci \in CartItemIds, q \in Quantities \cup {0} :
          update_item(c, ci, q)
    \/ \E c \in CartIds : clear_cart(c)
    \/ \E c \in CartIds, ci \in CartItemIds, q \in ReturnQuantities :
          return_cart_item(c, ci, q)
    \/ \E c \in CartIds : complete_cart(c)
    \/ \E c \in CartIds : delete_cart(c)
    \/ \E c \in CartIds, d \in Desks \cup {NoDesk} : update_cart(c, d)

SpecCart == InitCart /\ [][NextCart]_vars

\* Totals: carts filled, emptied and finished, and their summaries read.
NextTotals ==
    \/ create_cart
    \/ \E c \in CartIds, i \in Items, q \in Quantities : add_item(c, i, q)
    \/ \E c \in CartIds : clear_cart(c)
    \/ \E c \in CartIds : complete_cart(c)
    \/ \E c \in CartIds : delete_cart(c)
    \/ \E c \in CartIds : get_cart_summary(c)

SpecTotals == InitCart /\ [][NextTotals]_vars

\* Stock: the cart item requests and completion, with the stock service
\* setting, creating and removing entries in between.
InitStock == Init /\ items = Catalog /\ \A i \in Items : stock[i] # NoEntry

NextStock ==
    \/ create_cart
    \/ \E c \in CartIds, i \in Items, q \in Quantities : add_item(c, i, q)
    \/ \E c \in CartIds, ci \in CartItemIds, q \in Quantities \cup {0} :
          update_item(c, ci, q)
    \/ \E c \in CartIds : clear_cart(c)
    \/ \E c \in CartIds, ci \in CartItemIds, q \in Quantities \cup {NoQty} :
          return_item(c, ci, q)
    \/ \E c \in CartIds : complete_cart(c)
    \/ \E i \in Items, q \in StockQuantities : add_to_stock(i, q)
    \/ \E i \in Items, q \in StockQuantities : update_quantity(i, q)
    \/ \E i \in Items : remove_from_stock(i)

SpecStock == InitStock /\ [][NextStock]_vars

\* Settlement: carts filled and emptied over the days, catalog changes, and
\* the closes and reopens of one administrator.
InitSettle == Init /\ \A i \in Items : stock[i] # NoEntry

NextSettle ==
    \/ create_cart
    \/ \E c \in 1..Len(carts), i \in Items : add_item(c, i, QtyStep)
    \/ \E c \in 1..Len(carts) : clear_cart(c)
    \/ \E i \in Items, p \in Profiles : update_catalog_item(i, p)
    \/ Tick
    \/ close_today("admin")
    \/ \E d \in Dates : close_by_date(d, "admin")
    \/ \E a \in AccountIds : open_account(a, "admin")
    \/ \E d \in Dates : open_by_date(d, "admin")

SpecSettle == InitSettle /\ [][NextSettle]_vars

\* One business day: every kind of change to the day's carts, to stock and to
\* the catalog, around the closes of the day.
InitDay == Init /\ items = Catalog /\ \A i \in Items : stock[i] # NoEntry

NextDay ==
    \/ create_cart
    \/ \E c \in 1..Len(carts), i \in Items : add_item(c, i, QtyStep)
    \/ \E c \in 1..Len(carts) : clear_cart(c)
    \/ \E c \in 1..Len(carts) : complete_cart(c)
    \/ \E c \in 1..Len(carts) : delete_cart(c)
    \/ \E q \in {0, MaxQty * QtyStep} : update_quantity(1, q)
    \/ \E i \in Items, p \in Profiles : update_catalog_item(i, p)
    \/ \E d \in Dates : close_by_date(d, "admin")

SpecDay == InitDay /\ [][NextDay]_vars

\* Finishing: carts filled, completed and deleted, days closed and reopened.
NextFinish ==
    \/ create_cart
    \/ \E c \in 1..Len(carts), i \in Items : add_item(c, i, QtyStep)
    \/ \E c \in 1..Len(carts) : complete_cart(c)
    \/ \E c \in 1..Len(carts) : delete_cart(c)
    \/ Tick
    \/ close_today("admin")
    \/ \E d \in Dates : close_by_date(d, "admin")
    \/ \E a \in AccountIds : open_account(a, "admin")
    \/ \E d \in Dates : open_by_date(d, "admin")

SpecFinish == InitDay /\ [][NextFinish]_vars

\* Cart item requests of two workers side by side, stock fixed from outside.
InitRace ==
    /\ carts = <<>>
    /\ cart_items = {}
    /\ next_cart_item_id = 1
    /\ stock = [i \in Items |-> MaxStock]
    /\ items = Catalog
    /\ daily_accounts = <<>>
    /\ daily_account_items = EmptyBag
    /\ today = 1
    /\ last = [op |-> "init", code |-> "ok"]
    /\ pending = [w \in Workers |-> NoRequest]

NextRace ==
    \/ create_cart
    \/ \E w \in Workers, c \in CartIds, i \in {1, 3}, q \in Quantities :
          begin_add_item(w, c, i, q)
    \/ \E w \in Workers : finish_add_item(w)
    \/ \E w \in Workers, c \in CartIds, ci \in CartItemIds, q \in Quantities \cup {0} :
          begin_update_item(w, c, ci, q)
    \/ \E w \in Workers : finish_update_item(w)

SpecRace == InitRace /\ [][NextRace]_vars

\* Close requests of two workers side by side; carts change while no close is
\* under way.
InitCloseRace == Init /\ items = Catalog /\ \A i \in Items : stock[i] # NoEntry

NextCloseRace ==
    \/ (\A w \in Workers : Idle(w)) /\ create_cart
    \/ /\ \A w \in Workers : Idle(w)
       /\ \E c \in 1..Len(carts), i \in Items : add_item(c, i, QtyStep)
    \/ Tick
    \/ \E w \in Workers, d \in Dates : begin_close(w, d, "admin")
    \/ \E w \in Workers : finish_close(w)
    \/ \E d \in Dates : open_by_date(d, "admin")

SpecCloseRace == InitCloseRace /\ [][NextCloseRace]_vars

\* The daily account routes as called by users of every role.
InitRoles == Init /\ items = Catalog /\ \A i \in Items : stock[i] # NoEntry

NextRoles ==
    \/ create_cart
    \/ \E c \in 1..Len(carts), i \in Items : add_item(c, i, QtyStep)
    \/ Tick
    \/ \E u \in Actors : api_close_today(u)
    \/ \E d \in Dates, u \in Actors : api_close_by_date(d, u)
    \/ \E a \in AccountIds, u \in Actors : api_open_account(a, u)
    \/ \E d \in Dates, u \in Actors : api_open_by_date(d, u)
    \/ \E u \in Actors : get_item_sales(u)
    \/ \E u \in Actors : get_top_sellers(u)
    \/ \E u \in Actors : get_sales_by_category(u)

SpecRoles == InitRoles /\ [][NextRoles]_vars

\* ------------------------------------------------------------- properties

Terminal == {"completed", "deleted"}
CartItemOps == {"add_item", "update_item", "return_item", "clear_cart"}

\* Quantity of item i held by the rows of draft carts.
DraftQuantity(rows, crts, i) ==
    SumOver({r \in rows : r.item_id = i /\ crts[r.cart_id].status = "draft"},
            "quantity")

C2_StockNonNegative == \A i \in Items : stock[i] = NoEntry \/ stock[i] >= 0

\* C2 - No oversell: add_item of more than the item's on-hand stock and
\* update_item raising a row by more than the on-hand stock fail, with Conflict
\* on an existing cart, and change nothing; no stock quantity is ever negative.
C2_NoOversell ==
    /\ []C2_StockNonNegative
    /\ [][\A c \in CartIds, i \in Items, q \in Quantities :
            (/\ last'.op = "add_item"
             /\ stock[i] # NoEntry /\ q > stock[i]
             /\ add_item(c, i, q)) =>
               /\ last'.code # "ok"
               /\ (CartExists(c) => last'.code = "Conflict")
               /\ UNCHANGED tables]_vars
    /\ [][\A c \in CartIds, ci \in CartItemIds, q \in Quantities :
            \A r \in cart_items :
               (/\ last'.op = "update_item"
                /\ r.cart_id = c
                /\ r.id = ci \/ (r.item_id = ci /\ ~\E x \in cart_items :
                                                    x.cart_id = c /\ x.id = ci)
                /\ stock[r.item_id] # NoEntry
                /\ q - r.quantity > stock[r.item_id]
                /\ update_item(c, ci, q)) =>
               /\ last'.code = "Conflict"
               /\ UNCHANGED tables]_vars

\* update_item was refused for lack of stock: every cart is a draft and every
\* item has an entry, so nothing else answers Conflict.
C2_Witness ==
    /\ last = [op |-> "update_item", code |-> "Conflict"]
    /\ \A c \in 1..Len(carts) : carts[c].status = "draft"
    /\ \A i \in Items : stock[i] # NoEntry
    /\ \E r \in cart_items : stock[r.item_id] = 0

\* C3 - Cart immutability after transition: on a completed or deleted cart,
\* add_item, update_item, return_item, clear_cart and update_cart all fail with
\* Conflict and leave carts, cart items and stock as they were.
C3_CartImmutable ==
    [][\A c \in 1..Len(carts) :
         (carts[c].status \in Terminal /\ last'.op \in CartItemOps \cup {"update_cart"}) =>
        (/\ \A i \in ItemIds, q \in Quantities :
               add_item(c, i, q) => (last'.code = "Conflict" /\ UNCHANGED tables)
         /\ \A ci \in CartItemIds, q \in Quantities \cup {0} :
               update_item(c, ci, q) => (last'.code = "Conflict" /\ UNCHANGED tables)
         /\ \A ci \in CartItemIds, q \in Quantities \cup {NoQty} :
               return_item(c, ci, q) => (last'.code = "Conflict" /\ UNCHANGED tables)
         /\ clear_cart(c) => (last'.code = "Conflict" /\ UNCHANGED tables)
         /\ \A d \in Desks \cup {NoDesk} :
               update_cart(c, d) => (last'.code = "Conflict" /\ UNCHANGED tables))]_vars

\* clear_cart was refused on a completed cart that still holds rows.
C3_Witness ==
    /\ last = [op |-> "clear_cart", code |-> "Conflict"]
    /\ \E r \in cart_items : carts[r.cart_id].status = "completed"
    /\ \A c \in 1..Len(carts) : carts[c].status = "completed"

\* C4 - Terminal cart states: a cart is created in draft, and a completed or
\* deleted cart keeps exactly that status in every later step.
C4_TerminalKept ==
    [][/\ Len(carts') >= Len(carts)
       /\ \A c \in 1..Len(carts') :
            IF c > Len(carts) THEN carts'[c].status = "draft"
            ELSE (carts[c].status \in Terminal =>
                     carts'[c].status = carts[c].status)]_vars

\* delete_cart failed on the only cart, which is completed.
C4_Witness ==
    /\ last = [op |-> "delete_cart", code |-> "ServerError"]
    /\ Len(carts) = 1 /\ carts[1].status = "completed"

\* C5 - Transition only from draft: complete_cart or delete_cart on a cart
\* that is already completed or deleted, whichever status is asked for, fails
\* with Conflict and changes nothing.
C5_TransitionOnlyFromDraft ==
    [][\A c \in 1..Len(carts) : carts[c].status \in Terminal =>
         ((complete_cart(c) \/ delete_cart(c)) =>
            (last'.code = "Conflict" /\ UNCHANGED tables))]_vars

\* C6 - Duplicate cart-item rejection: add_item for a (cart, item) pair that
\* already has a row fails with Conflict and changes no row and no stock.
C6_DuplicateRejected ==
    [][\A c \in 1..Len(carts), i \in Items, q \in Quantities :
         (/\ last'.op = "add_item"
          /\ \E r \in cart_items : r.cart_id = c /\ r.item_id = i
          /\ add_item(c, i, q))
            => (last'.code = "Conflict" /\ UNCHANGED tables)]_vars

\* add_item was refused on the one draft cart although every item it does not
\* hold is fully stocked: the pair was already there.
C6_Witness ==
    /\ last = [op |-> "add_item", code |-> "Conflict"]
    /\ Len(carts) = 1 /\ carts[1].status = "draft"
    /\ cart_items # {}
    /\ \A i \in Items :
          \/ \E r \in cart_items : r.item_id = i
          \/ stock[i] = MaxQty * QtyStep
\* The daily_account_items rows of an account, by value.
RowsOf(bag, a) == [r \in {x \in DOMAIN bag : x.account_id = a} |-> bag[r]]

\* The figures and rows the day's carts and the catalog amount to right now.
CurrentFigures(d) ==
    LET aggregated == _aggregate_cart_items(_get_carts_by_date(d))
        totals == _calculate_totals(aggregated)
    IN  [subtotal |-> totals.subtotal, discount_total |-> totals.discount_total,
         tax_total |-> totals.tax_total, total |-> totals.total,
         carts_count |-> Cardinality(_get_carts_by_date(d)),
         items_count |-> Cardinality(aggregated)]

CurrentRows(a, d) ==
    SetToBag({[account_id |-> a] @@ e :
                 e \in _aggregate_cart_items(_get_carts_by_date(d))})

\* Close, reopen, close again from the present state, nothing else touched.
C7_Composed ==
    \A d \in Dates :
       LET r1 == close_result(daily_accounts, daily_account_items, d, "admin") IN
       r1.code = "ok" =>
          LET a == CHOOSE x \in 1..Len(r1.daily_accounts) :
                      r1.daily_accounts[x].account_date = d
              r2 == open_result(r1.daily_accounts, a, "admin")
              r3 == close_result(r2.daily_accounts, r1.daily_account_items, d, "admin")
          IN  /\ r2.code = "ok" /\ r3.code = "ok"
              /\ Len(r3.daily_accounts) = Len(r1.daily_accounts)
              /\ Figures(r3.daily_accounts[a]) = Figures(r1.daily_accounts[a])
              /\ RowsOf(r3.daily_account_items, a) = RowsOf(r1.daily_account_items, a)

\* A reclose of an account whose stored figures and rows are what the day's
\* carts and the catalog still amount to.
C7_Reclose ==
    \A a \in 1..Len(daily_accounts) :
       (/\ ~daily_accounts[a].is_closed /\ daily_accounts'[a].is_closed
        /\ Figures(daily_accounts[a]) = CurrentFigures(daily_accounts[a].account_date)
        /\ RowsOf(daily_account_items, a)
              = CurrentRows(a, daily_accounts[a].account_date)) =>
       (/\ Figures(daily_accounts'[a]) = Figures(daily_accounts[a])
        /\ RowsOf(daily_account_items', a) = RowsOf(daily_account_items, a))

\* C7 - Idempotent reclose: close, reopen and close again with carts, cart
\* items and catalog unchanged stores the same totals, carts_count and
\* items_count and the same rows by value; from every state where the day can
\* be closed, and on every reclose the system takes, on whatever day.
C7_IdempotentReclose == []C7_Composed /\ [][C7_Reclose]_vars

\* An account created on an earlier day has just been closed again, holding
\* rows for both items that match the carts as they are.
C7_Witness ==
    /\ last.code = "ok" /\ last.op \in {"close_by_date", "close_today"}
    /\ \E a \in 1..Len(daily_accounts) :
          /\ daily_accounts[a].is_closed
          /\ daily_accounts[a].created_at < daily_accounts[a].closed_at
          /\ daily_accounts[a].items_count = 2
          /\ Figures(daily_accounts[a]) = CurrentFigures(daily_accounts[a].account_date)

\* The columns open_account does not write.
Kept(account) ==
    [f \in DOMAIN account \ {"is_closed", "closed_at", "closed_by", "updated_by",
                             "updated_at"} |-> account[f]]

\* C8 - Reopen preserves history: a step that opens an account or leaves it
\* open changes none of its columns but is_closed, closed_at, closed_by,
\* updated_by and updated_at, and none of its rows.
C8_ReopenPreserves ==
    [][\A a \in 1..Len(daily_accounts) :
          ~daily_accounts'[a].is_closed =>
             /\ Kept(daily_accounts'[a]) = Kept(daily_accounts[a])
             /\ RowsOf(daily_account_items', a) = RowsOf(daily_account_items, a)]_vars

\* An account with rows has just been reopened.
C8_Witness ==
    /\ last.code = "ok" /\ last.op \in {"open_account", "open_by_date"}
    /\ \E a \in 1..Len(daily_accounts) :
          /\ ~daily_accounts[a].is_closed
          /\ daily_accounts[a].total > 0
          /\ RowsOf(daily_account_items, a) # EmptyBag

\* C9 - A closed day is immutable: a step that starts and ends with the
\* account closed changes no column of it and none of its rows.
C9_ClosedImmutable ==
    [][\A a \in 1..Len(daily_accounts) :
          (daily_accounts[a].is_closed /\ daily_accounts'[a].is_closed) =>
             /\ daily_accounts'[a] = daily_accounts[a]
             /\ RowsOf(daily_account_items', a) = RowsOf(daily_account_items, a)]_vars

\* A close was refused on a closed day whose carts have changed since.
C9_Witness ==
    /\ last = [op |-> "close_by_date", code |-> "Conflict"]
    /\ \E a \in 1..Len(daily_accounts) :
          /\ daily_accounts[a].is_closed
          /\ Figures(daily_accounts[a]) # CurrentFigures(daily_accounts[a].account_date)
          /\ \E c \in 1..Len(carts) : carts[c].status = "completed"

\* C10 - Cart totals match the ledger to the cent: the subtotal,
\* discount_total, tax_total and total a close stores for a date are the sums
\* of calculate_totals over the carts created on that date.
C10_TotalsMatchLedger ==
    [][\A a \in 1..Len(daily_accounts') :
          (/\ last'.code = "ok" /\ last'.op \in {"close_by_date", "close_today"}
           /\ daily_accounts'[a].is_closed
           /\ a \in 1..Len(daily_accounts) => ~daily_accounts[a].is_closed) =>
          \A f \in {"subtotal", "discount_total", "tax_total", "total"} :
             daily_accounts'[a][f] =
                SumOver({[cart_id |-> c] @@ calculate_totals(c) :
                           c \in _get_carts_by_date(daily_accounts'[a].account_date)},
                        f)]_vars

\* The step ends the request worker w had read for.
FinishedBy(w) == pending[w] # NoRequest /\ pending'[w] = NoRequest

\* What a committed cart item request wrote: add_item its row and the stock
\* taken for it; update_item the quantity of the row it read (the row gone for
\* quantity 0) and the stock moved by the difference to the quantity it read.
C11_Paired ==
    \A w \in Workers : (FinishedBy(w) /\ last'.code = "ok") =>
        LET r == pending[w] IN
        IF r.op = "add_item"
        THEN /\ \E row \in cart_items' \ cart_items :
                  /\ cart_items' = cart_items \cup {row}
                  /\ row.cart_id = r.cart_id
                  /\ row.item_id = r.item_id
                  /\ row.quantity = r.quantity
             /\ stock' = [stock EXCEPT ![r.item_id] = @ - r.quantity]
        ELSE /\ \A x \in cart_items' :
                  x.id = r.cart_item.id => (r.quantity # 0 /\ x.quantity = r.quantity)
             /\ stock' = [stock EXCEPT ![r.cart_item.item_id] =
                              @ + r.cart_item.quantity - r.quantity]

\* C11 - Atomic failure: a request that fails, at its checks or between its
\* writes (the cart item row written, the stock UPDATE refused), leaves carts,
\* cart items, stock entries, daily accounts and daily account items as they
\* were before it; a request that commits commits its cart item write and its
\* stock write together.
C11_AtomicFailure ==
    [][(last'.code # "ok" => UNCHANGED tables) /\ C11_Paired]_vars

\* update_item failed at its stock UPDATE, after its row UPDATE: a row raised by
\* another request in between left too little stock for the delta.
C11_Witness ==
    /\ last = [op |-> "update_item", code |-> "ServerError"]
    /\ \E r \in cart_items : stock[r.item_id] = 0

\* The request read the stock entry: add_item always, update_item when the
\* quantity goes up.
StockRead(r) ==
    \/ r.op = "add_item"
    \/ (r.op = "update_item" /\ r.quantity > r.cart_item.quantity)

ItemOf(r) == IF r.op = "add_item" THEN r.item_id ELSE r.cart_item.item_id

\* The stock the request takes.
Demand(r) == IF r.op = "add_item" THEN r.quantity ELSE r.quantity - r.cart_item.quantity

\* What the request read is what the tables hold: no write came in between.
Fresh(r) ==
    /\ _ensure_stock_available(stock[ItemOf(r)], Demand(r))
    /\ IF r.op = "add_item" THEN cart_item_unique(cart_items, r.cart_id, r.item_id)
       ELSE r.cart_item \in cart_items

Writes(r, t) == IF r.op = "add_item" THEN add_item_writes(r, t) ELSE update_item_writes(r, t)

\* C12 - No concurrent oversell: when two add_item/update_item requests for the
\* same item have both read the stock and neither has written, then whichever
\* writes first, they do not both commit if their combined quantity exceeds the
\* stock on hand, stock never goes below zero, and stock plus the quantity held
\* by carts is after both what it was before.
C12_NoConcurrentOversell ==
    \A w1, w2 \in Workers :
        (/\ w1 # w2
         /\ StockRead(pending[w1]) /\ StockRead(pending[w2])
         /\ ItemOf(pending[w1]) = ItemOf(pending[w2])
         /\ Fresh(pending[w1]) /\ Fresh(pending[w2])) =>
        LET i == ItemOf(pending[w1])
            first == Writes(pending[w1], Written(cart_items, stock, next_cart_item_id))
            second == Writes(pending[w2], first.t)
        IN  /\ (first.code = "ok" /\ second.code = "ok") =>
                   Demand(pending[w1]) + Demand(pending[w2]) <= stock[i]
            /\ first.t.stock[i] >= 0
            /\ second.t.stock[i] >= 0
            /\ second.t.stock[i] + DraftQuantity(second.t.cart_items, carts, i)
                   = stock[i] + DraftQuantity(cart_items, carts, i)

\* The close request read what the tables hold: the account of the date (none,
\* or an open one) and the day's cart data.
CloseFresh(r) ==
    /\ r.op = "close_by_date"
    /\ r.existing = get_by_date(r.account_date)
    /\ \A a \in r.existing : ~daily_accounts[a].is_closed
    /\ r.aggregated = _aggregate_cart_items(_get_carts_by_date(r.account_date))

AccountsOf(accounts, d) == {a \in 1..Len(accounts) : accounts[a].account_date = d}

\* Two close requests of one date that have both read and not yet written:
\* whichever writes first, the date ends with one account, holding what a
\* single close from the same state stores.
C13_BothOrders ==
    \A w1, w2 \in Workers :
        (/\ w1 # w2
         /\ CloseFresh(pending[w1]) /\ CloseFresh(pending[w2])
         /\ pending[w1].account_date = pending[w2].account_date) =>
        LET d == pending[w1].account_date
            first == close_writes(pending[w1], daily_accounts, daily_account_items)
            second == close_writes(pending[w2], first.daily_accounts,
                                   first.daily_account_items)
            single == close_result(daily_accounts, daily_account_items, d, "admin")
        IN  /\ Cardinality(AccountsOf(second.daily_accounts, d)) = 1
            /\ AccountsOf(second.daily_accounts, d) = AccountsOf(single.daily_accounts, d)
            /\ \A a \in AccountsOf(second.daily_accounts, d) :
                  LET rows == RowsOf(second.daily_account_items, a) IN
                  /\ second.daily_accounts[a].is_closed
                  /\ Figures(second.daily_accounts[a]) = Figures(single.daily_accounts[a])
                  /\ rows = RowsOf(single.daily_account_items, a)
                  /\ \A x \in DOMAIN rows : rows[x] = 1
                  /\ \A x, y \in DOMAIN rows : x.item_id = y.item_id => x = y

\* Every step that ends a close request leaves the date with one account, its
\* figures and rows those of the day's carts, each sold item in one row.
C13_FinishStep ==
    \A w \in Workers : (FinishedBy(w) /\ pending[w].op = "close_by_date") =>
        LET d == pending[w].account_date IN
        /\ Cardinality(AccountsOf(daily_accounts', d)) = 1
        /\ \A a \in AccountsOf(daily_accounts', d) :
              /\ Figures(daily_accounts'[a]) = CurrentFigures(d)
              /\ RowsOf(daily_account_items', a) = CurrentRows(a, d)

\* C13 - Concurrent close is safe: under every interleaving of two close
\* requests for one date, with no account yet or a reopened one, the date ends
\* with exactly one daily account, one item row per sold item and none twice,
\* and the totals of a single close.
C13_ConcurrentCloseSafe == []C13_BothOrders /\ [][C13_FinishStep]_vars

\* The second of two closes that both found no account was refused by the
\* INSERT (every cart holds rows, so the failure is not the empty-day one); the
\* first one's account stands.
C13_Witness ==
    /\ last = [op |-> "close_by_date", code |-> "ServerError"]
    /\ \A w \in Workers : Idle(w)
    /\ \A c \in 1..Len(carts) : \E r \in cart_items : r.cart_id = c
    /\ \E a \in 1..Len(daily_accounts) :
          /\ daily_accounts[a].is_closed
          /\ RowsOf(daily_account_items, a) # EmptyBag

CloseOps == {"close_today", "close_by_date"}

\* The date has an account and it is closed.
ClosedDate(d) ==
    \E a \in 1..Len(daily_accounts) :
        daily_accounts[a].account_date = d /\ daily_accounts[a].is_closed

\* C14 - Closing a closed day: close_today and close_by_date for a date whose
\* account exists and is closed answer Conflict and leave the account and its
\* item rows (and every other table) as they were; a close that succeeds closes
\* an account that was not closed before it, so no second close succeeds
\* without an open in between.
C14_CloseClosedConflict ==
    [][/\ (last'.op = "close_today" /\ ClosedDate(today) /\ close_today("admin")) =>
              (last'.code = "Conflict" /\ UNCHANGED tables)
       /\ \A d \in Dates :
             (last'.op = "close_by_date" /\ ClosedDate(d) /\ close_by_date(d, "admin")) =>
                (last'.code = "Conflict" /\ UNCHANGED tables)
       /\ (last'.op \in CloseOps /\ last'.code = "ok") =>
             \E a \in 1..Len(daily_accounts') :
                /\ daily_accounts'[a].is_closed
                /\ a \in 1..Len(daily_accounts) => ~daily_accounts[a].is_closed
                /\ \A b \in 1..Len(daily_accounts) :
                      b # a => daily_accounts'[b] = daily_accounts[b]]_vars

\* close_today was refused on the closed day, whose account and rows stand.
C14_Witness ==
    /\ last = [op |-> "close_today", code |-> "Conflict"]
    /\ \E a \in 1..Len(daily_accounts) :
          /\ daily_accounts[a].account_date = today
          /\ daily_accounts[a].is_closed
          /\ RowsOf(daily_account_items, a) # EmptyBag

\* C15 - Closing an empty day: a close for a date that is not closed answers
\* BadRequest, creating or changing no account, exactly when no cart was
\* created on the date; with at least one cart of the date, even with no cart
\* items at all, it succeeds.
C15_EmptyDayBadRequest ==
    [][\A d \in Dates :
          (/\ last'.op \in CloseOps
           /\ ~ClosedDate(d)
           /\ close_by_date(d, "admin") \/ (d = today /\ close_today("admin"))) =>
             /\ (last'.code = "BadRequest") <=> (_get_carts_by_date(d) = {})
             /\ last'.code = "BadRequest" =>
                   UNCHANGED <<daily_accounts, daily_account_items>>
             /\ _get_carts_by_date(d) # {} => last'.code = "ok"]_vars

\* What an open request for the accounts `found` (none or one) must do.
Opened(found) ==
    IF found = {} THEN last'.code = "NotFound" /\ UNCHANGED tables
    ELSE \A a \in found :
           IF ~daily_accounts[a].is_closed
           THEN last'.code = "Conflict" /\ UNCHANGED tables
           ELSE /\ last'.code = "ok"
                /\ ~daily_accounts'[a].is_closed
                /\ daily_accounts'[a].closed_at = NoDate
                /\ daily_accounts'[a].closed_by = NoUser

\* C16 - open: NotFound when no account exists for the id or date, Conflict
\* when the account is already open, nothing changed in either case; on a
\* closed account it succeeds, with is_closed false and closed_at and closed_by
\* cleared.
C16_OpenOutcomes ==
    [][/\ \A d \in Dates :
             (last'.op = "open_by_date" /\ open_by_date(d, "admin")) =>
                Opened({a \in 1..Len(daily_accounts) : daily_accounts[a].account_date = d})
       /\ \A id \in AccountIds :
             (last'.op = "open_account" /\ open_account(id, "admin")) =>
                Opened({a \in 1..Len(daily_accounts) : a = id})]_vars

\* An account closed on an earlier day has just been opened by its date.
C16_Witness ==
    /\ last = [op |-> "open_by_date", code |-> "ok"]
    /\ \E a \in 1..Len(daily_accounts) :
          /\ ~daily_accounts[a].is_closed
          /\ daily_accounts[a].closed_at = NoDate
          /\ daily_accounts[a].closed_by = NoUser
          /\ daily_accounts[a].account_date < today
          /\ daily_accounts[a].updated_at = today

\* C17 - Reclose is a full recompute: every successful close of an account
\* that was open before it, whatever was closed, edited in the carts and
\* changed in the catalog since, stores the totals and the item rows that a
\* first close of the same date into an empty ledger stores from the carts and
\* the catalog as they are; no row, quantity or price of the earlier snapshot
\* is left.
C17_RecloseRecomputes ==
    [][\A a \in 1..Len(daily_accounts) :
          (/\ last'.op \in CloseOps /\ last'.code = "ok"
           /\ ~daily_accounts[a].is_closed /\ daily_accounts'[a].is_closed) =>
          LET d == daily_accounts[a].account_date
              fresh == close_result(<<>>, EmptyBag, d, "admin")
          IN  /\ fresh.code = "ok"
              /\ Figures(daily_accounts'[a]) = Figures(fresh.daily_accounts[1])
              /\ RowsOf(daily_account_items', a) =
                    SetToBag({[r EXCEPT !.account_id = a] :
                                 r \in DOMAIN fresh.daily_account_items})]_vars

\* An account created on an earlier day was closed again today with one item
\* row, while one of the day's two carts holds nothing.
C17_Witness ==
    /\ last = [op |-> "close_by_date", code |-> "ok"]
    /\ \E a \in 1..Len(daily_accounts) :
          /\ daily_accounts[a].is_closed
          /\ daily_accounts[a].created_at < daily_accounts[a].closed_at
          /\ daily_accounts[a].items_count = 1
          /\ daily_accounts[a].carts_count = 2
          /\ \E c \in _get_carts_by_date(daily_accounts[a].account_date) :
                list_cart_items_by_cart(c) = {}

\* n / d rounded half-up to a whole number, for n >= 0 and d > 0.
round2(n, d) == (2 * n + d) \div (2 * d)

\* C18 - The item snapshot: after a successful close of a date the account has
\* exactly one row per distinct item_id found in the cart items of the carts
\* created on the date, draft, completed and deleted carts alike; the row's
\* quantity is the sum of those cart items' quantities, and its line values are
\* the half-up chain applied once to the summed quantity at the catalog's
\* current unit_price, discount_rate and tax_rate.
C18_SnapshotRows ==
    [][\A a \in 1..Len(daily_accounts') :
          (/\ last'.op \in CloseOps /\ last'.code = "ok"
           /\ daily_accounts'[a].is_closed
           /\ a \in 1..Len(daily_accounts) => ~daily_accounts[a].is_closed) =>
          LET d == daily_accounts'[a].account_date
              held == {r \in cart_items : carts[r.cart_id].created_date = d}
              rows == RowsOf(daily_account_items', a)
          IN  /\ {x.item_id : x \in DOMAIN rows} = {r.item_id : r \in held}
              /\ \A x \in DOMAIN rows :
                    /\ rows[x] = 1
                    /\ \A y \in DOMAIN rows : y.item_id = x.item_id => y = x
                    /\ x.quantity = SumOver({r \in held : r.item_id = x.item_id}, "quantity")
                    /\ x.unit_price = items[x.item_id].unit_price
                    /\ x.discount_rate = items[x.item_id].discount_rate
                    /\ x.tax_rate = items[x.item_id].tax_rate
                    /\ x.line_subtotal = round2(x.unit_price * x.quantity, QtyScale)
                    /\ x.line_discount = round2(x.line_subtotal * x.discount_rate, 100)
                    /\ x.line_tax = round2((x.line_subtotal - x.line_discount) * x.tax_rate, 100)
                    /\ x.line_total = x.line_subtotal - x.line_discount + x.line_tax]_vars

\* A day was closed whose deleted cart and completed cart hold the same item:
\* the item's row carries the two quantities summed.
C18_Witness ==
    /\ last = [op |-> "close_by_date", code |-> "ok"]
    /\ \E a \in 1..Len(daily_accounts), x \in DOMAIN daily_account_items :
          /\ daily_accounts[a].is_closed
          /\ x.account_id = a
          /\ x.quantity = 2 * QtyStep
          /\ \E r1, r2 \in cart_items :
                /\ r1.item_id = x.item_id /\ r2.item_id = x.item_id
                /\ carts[r1.cart_id].status = "deleted"
                /\ carts[r2.cart_id].status = "completed"
                /\ carts[r1.cart_id].created_date = daily_accounts[a].account_date
                /\ carts[r2.cart_id].created_date = daily_accounts[a].account_date

\* C19 - add_item on a draft cart answers NotFound, creating no cart item and
\* changing no stock, when the item is not in the catalog or has no stock
\* entry.
C19_MissingItemOrStock ==
    [][\A c \in 1..Len(carts), i \in ItemIds, q \in Quantities :
          (/\ last'.op = "add_item"
           /\ carts[c].status = "draft"
           /\ i \notin Items \/ stock[i] = NoEntry
           /\ add_item(c, i, q)) =>
             (last'.code = "NotFound" /\ UNCHANGED tables)]_vars

\* C20 - Line pricing rounds half-up to 2 decimals at every step: for every
\* cart row, of whatever catalog price, rates and quantity, the line the cart
\* computes has line_subtotal = round2(unit_price * quantity), line_discount =
\* round2(line_subtotal * discount_rate / 100), line_tax = round2((line_subtotal
\* - line_discount) * tax_rate / 100) and line_total = line_subtotal -
\* line_discount + line_tax.
C20_HalfUpEveryStep ==
    \A r \in cart_items :
        LET item == items[r.item_id]
            line == _calculate_line(item, r.quantity)
        IN  /\ line.line_subtotal = round2(item.unit_price * r.quantity, QtyScale)
            /\ line.line_discount = round2(line.line_subtotal * item.discount_rate, 100)
            /\ line.line_tax =
                  round2((line.line_subtotal - line.line_discount) * item.tax_rate, 100)
            /\ line.line_total = line.line_subtotal - line.line_discount + line.line_tax

GatedOps == {"open_account", "open_by_date", "close_by_date"}

AnalysisOps == {"get_item_sales", "get_top_sellers", "get_sales_by_category"}

\* C21 - Role gating: open by id, open by date, close by date and the three
\* analysis queries, called by a user whose role is employee, are refused with
\* Forbidden and change nothing.
C21_RoleGating ==
    [][\A u \in Actors :
          (role(u) = "employee" /\ last'.op \in GatedOps \cup AnalysisOps) =>
             /\ \A a \in AccountIds :
                   api_open_account(a, u) => (last'.code = "Forbidden" /\ UNCHANGED tables)
             /\ \A d \in Dates :
                   /\ api_open_by_date(d, u) =>
                         (last'.code = "Forbidden" /\ UNCHANGED tables)
                   /\ api_close_by_date(d, u) =>
                         (last'.code = "Forbidden" /\ UNCHANGED tables)
             /\ get_item_sales(u) => (last'.code = "Forbidden" /\ UNCHANGED tables)
             /\ get_top_sellers(u) => (last'.code = "Forbidden" /\ UNCHANGED tables)
             /\ get_sales_by_category(u) =>
                   (last'.code = "Forbidden" /\ UNCHANGED tables)]_vars

\* C22 - return_item on a row of a draft cart: with no quantity, or with the
\* row's whole quantity, the row is removed and stock rises by the row's
\* quantity; with 0 < qty < current the row keeps current - qty and stock rises
\* by qty; with qty <= 0 or qty > current the request is refused as a bad
\* request and neither the row nor the stock changes.
C22_ReturnItem ==
    [][\A r \in cart_items, q \in ReturnQuantities :
          (/\ last'.op = "return_item"
           /\ carts[r.cart_id].status = "draft"
           /\ stock[r.item_id] # NoEntry
           /\ return_cart_item(r.cart_id, r.id, q)) =>
             IF q = NoQty \/ q = r.quantity
             THEN /\ last'.code = "ok"
                  /\ cart_items' = cart_items \ {r}
                  /\ stock' = [stock EXCEPT ![r.item_id] = @ + r.quantity]
             ELSE IF 0 < q /\ q < r.quantity
             THEN /\ last'.code = "ok"
                  /\ cart_items' = (cart_items \ {r}) \cup {[r EXCEPT !.quantity = @ - q]}
                  /\ stock' = [stock EXCEPT ![r.item_id] = @ + q]
             ELSE last'.code = "BadRequest" /\ UNCHANGED tables]_vars

\* Half of a row was returned: the row keeps the other half, stock has risen.
C22_Witness ==
    /\ last = [op |-> "return_item", code |-> "ok"]
    /\ \E r \in cart_items :
          /\ r.quantity = QtyStep
          /\ stock[r.item_id] = MaxQty * QtyStep - QtyStep
          /\ next_cart_item_id = r.id + 1
          /\ r.id = 1

\* No two carts hold the same desk.
C23_NoSharedDesk ==
    \A c1, c2 \in 1..Len(carts) :
        (c1 # c2 /\ carts[c1].desk_number # NoDesk) =>
            carts[c1].desk_number # carts[c2].desk_number

\* update_cart asking for a desk another cart holds is refused.
C23_DuplicateRefused ==
    \A c, other \in 1..Len(carts), d \in Desks :
        (/\ last'.op = "update_cart"
         /\ other # c /\ carts[other].desk_number = d
         /\ update_cart(c, d)) =>
            (last'.code = "Conflict" /\ UNCHANGED tables)

\* C23 - Desk numbers are unique: update_cart with a desk_number that another
\* cart holds, whatever that cart's status, answers Conflict and changes
\* nothing; in every reachable state no two carts share a desk_number.
C23_DeskUnique == []C23_NoSharedDesk /\ [][C23_DuplicateRefused]_vars

\* A draft cart asked for the desk the other draft cart holds and was refused.
C23_Witness ==
    /\ last = [op |-> "update_cart", code |-> "Conflict"]
    /\ Len(carts) = 2
    /\ \A c \in 1..Len(carts) : carts[c].status = "draft"
    /\ carts[1].desk_number = NoDesk
    /\ carts[2].desk_number # NoDesk

\* C24 - update_item and return_item on a draft cart, called with a number
\* that is not the id of a row of that cart, answer NotFound and change no cart
\* item and no stock, also when the number is the item_id of a row of the cart
\* or the id of a row of another cart.
C24_ForeignRowNotFound ==
    [][\A c \in 1..Len(carts), n \in CartItemIds :
          (/\ last'.op \in {"update_item", "return_item"}
           /\ carts[c].status = "draft"
           /\ ~\E r \in cart_items : r.id = n /\ r.cart_id = c) =>
             /\ \A q \in Quantities \cup {0} :
                   (last'.op = "update_item" /\ update_item(c, n, q)) =>
                      (last'.code = "NotFound" /\ UNCHANGED tables)
             /\ \A q \in Quantities \cup {NoQty} :
                   (last'.op = "return_item" /\ return_cart_item(c, n, q)) =>
                      (last'.code = "NotFound" /\ UNCHANGED tables)]_vars

\* C25: the summary of a cart without rows, whatever the cart's status, is the
\* zeroed totals with no line items; the request succeeds and changes nothing.
C25_Empty(c) == list_cart_items_by_cart(c) = {}

C25_ZeroTotals ==
    \A c \in 1..Len(carts) :
        C25_Empty(c) =>
            /\ calculate_totals(c) = [subtotal |-> 0, discount_total |-> 0,
                                      tax_total |-> 0, total |-> 0]
            /\ line_items(c) = {}

C25_SummaryReadOnly ==
    \A c \in CartIds :
        (last'.op = "get_cart_summary" /\ CartExists(c) /\ C25_Empty(c)
            /\ get_cart_summary(c)) =>
                (last'.code = "ok" /\ UNCHANGED tables)

C25_EmptyCartTotals == []C25_ZeroTotals /\ [][C25_SummaryReadOnly]_vars

\* The summary of an emptied cart that was then completed, and of a deleted
\* cart that never held a row, has been read.
C25_Witness ==
    /\ last = [op |-> "get_cart_summary", code |-> "ok"]
    /\ Len(carts) = MaxCarts
    /\ cart_items = {}
    /\ {carts[c].status : c \in 1..Len(carts)} = Terminal
    /\ next_cart_item_id > 1

\* C26: no cart item row ever has quantity 0 or less; update_item to 0 and
\* a return of the whole quantity (asked in full or by its amount) delete the
\* row in the same request; update_item to a quantity above 0 leaves the row
\* with exactly that quantity and the item's stock lowered by the difference.
C26_PositiveRows == \A r \in cart_items : r.quantity > 0

C26_RowsOfId(rows, id) == {x \in rows : x.id = id}

C26_UpdateStep ==
    \A c \in CartIds, n \in CartItemIds, q \in Quantities \cup {0} :
        \A r \in cart_items :
            (/\ last'.op = "update_item" /\ last'.code = "ok"
             /\ CartExists(c)
             /\ IF r.id = n /\ r.cart_id = c THEN TRUE
                ELSE /\ ~\E x \in cart_items : x.id = n /\ x.cart_id = c
                     /\ r.cart_id = c /\ r.item_id = n
             /\ update_item(c, n, q)) =>
                IF q = 0 THEN C26_RowsOfId(cart_items', r.id) = {}
                ELSE /\ C26_RowsOfId(cart_items', r.id) = {[r EXCEPT !.quantity = q]}
                     /\ stock[r.item_id] # NoEntry =>
                           stock'[r.item_id] = stock[r.item_id] - (q - r.quantity)

C26_ReturnStep ==
    \A c \in CartIds, n \in CartItemIds :
        \A r \in cart_items :
            (/\ last'.op = "return_item" /\ last'.code = "ok"
             /\ r.id = n /\ r.cart_id = c) =>
                \A q \in {NoQty, r.quantity} :
                    return_item(c, n, q) => C26_RowsOfId(cart_items', r.id) = {}

C26_NoZeroRows ==
    []C26_PositiveRows /\ [][C26_UpdateStep /\ C26_ReturnStep]_vars

\* The only row ever created has been returned whole: the request succeeded
\* and no row is left.
C26_Witness ==
    /\ last = [op |-> "return_item", code |-> "ok"]
    /\ cart_items = {}
    /\ next_cart_item_id = 2

\* The sum of one column over the item rows of account a, each row counted as
\* often as the table holds it.
C27_RowSum(a, field) ==
    LET held == RowsOf(daily_account_items, a) IN
    SumOver({[row |-> r, amount |-> r[field] * held[r]] : r \in DOMAIN held},
            "amount")

\* C27: for every daily account, closed or reopened, subtotal, discount_total
\* and tax_total are the sums of line_subtotal, line_discount and line_tax over
\* its item rows, total is subtotal - discount_total + tax_total and the sum of
\* line_total, and items_count is the number of its rows.
C27_TotalsMatchRows ==
    \A a \in 1..Len(daily_accounts) :
        LET account == daily_accounts[a] IN
        /\ account.subtotal = C27_RowSum(a, "line_subtotal")
        /\ account.discount_total = C27_RowSum(a, "line_discount")
        /\ account.tax_total = C27_RowSum(a, "line_tax")
        /\ account.total = account.subtotal - account.discount_total
                              + account.tax_total
        /\ account.total = C27_RowSum(a, "line_total")
        /\ account.items_count = BagCardinality(RowsOf(daily_account_items, a))

\* An account with taxed rows of two items has been reopened.
C27_Witness ==
    \E a \in 1..Len(daily_accounts) :
        /\ ~daily_accounts[a].is_closed
        /\ daily_accounts[a].items_count = 2
        /\ daily_accounts[a].tax_total > 0
        /\ last.op \in {"open_account", "open_by_date"}

\* C28: a daily account is closed exactly when closed_at and closed_by are
\* both set; no account is created open, and an account is open after a step
\* only if it was open before or an open request has just reopened it, so
\* every open account has been closed before.
C28_FlagMatchesAudit ==
    \A a \in 1..Len(daily_accounts) :
        daily_accounts[a].is_closed <=>
            (daily_accounts[a].closed_at # NoDate /\ daily_accounts[a].closed_by # NoUser)

C28_OpenOnlyByReopening ==
    \A a \in 1..Len(daily_accounts') :
        ~daily_accounts'[a].is_closed =>
            /\ a <= Len(daily_accounts)
            /\ daily_accounts[a].is_closed =>
                  (last'.op \in {"open_account", "open_by_date"} /\ last'.code = "ok")

C28_ClosedFlag == []C28_FlagMatchesAudit /\ [][C28_OpenOnlyByReopening]_vars

\* One account has been reopened while another, created by a later close,
\* is closed.
C28_Witness ==
    /\ Len(daily_accounts) = 2
    /\ ~daily_accounts[1].is_closed /\ daily_accounts[1].closed_at = NoDate
    /\ daily_accounts[2].is_closed /\ daily_accounts[2].closed_by # NoUser

\* The requests that finish a cart or settle a day.
C29_Ops == {"complete_cart", "delete_cart", "close_today", "close_by_date",
            "open_account", "open_by_date"}

\* C29: complete_cart, delete_cart, close_today, close_by_date, open_account
\* and open_by_date, succeeding or failing, leave every stock quantity and
\* every cart item row as they were; a deleted draft cart keeps its rows and
\* their quantities stay out of stock.
C29_StockAndRowsKept ==
    [][last'.op \in C29_Ops => (stock' = stock /\ cart_items' = cart_items)]_vars

\* delete_cart has just deleted a cart that holds a row, and the row's
\* quantity is still missing from the stock the run began with.
C29_Witness ==
    /\ last = [op |-> "delete_cart", code |-> "ok"]
    /\ \E r \in cart_items :
          /\ carts[r.cart_id].status = "deleted"
          /\ \A x \in cart_items : x = r
          /\ stock[r.item_id] + r.quantity = MaxQty * QtyStep

\* What a cart item request for cart A may touch: the rows of every other
\* cart and every cart's status stay, and stock changes only for an item whose
\* row in A was created, changed or deleted.
C30_Isolated(A) ==
    /\ {r \in cart_items' : r.cart_id # A} = {r \in cart_items : r.cart_id # A}
    /\ \A c \in 1..Len(carts) : carts'[c].status = carts[c].status
    /\ Len(carts') = Len(carts)
    /\ \A i \in Items :
          stock'[i] # stock[i] =>
             get_cart_item_by_cart_and_item(A, i)
                # {r \in cart_items' : r.cart_id = A /\ r.item_id = i}

\* C30: add_item, update_item, return_item and clear_cart called for cart A
\* never create, change or delete a row of another cart nor change a cart's
\* status, and change stock only of the items whose rows in A they create,
\* change or delete.
C30_CartIsolation ==
    [][\A A \in CartIds :
         /\ \A i \in ItemIds, q \in Quantities :
               (last'.op = "add_item" /\ add_item(A, i, q)) => C30_Isolated(A)
         /\ \A n \in CartItemIds, q \in Quantities \cup {0} :
               (last'.op = "update_item" /\ update_item(A, n, q)) => C30_Isolated(A)
         /\ \A n \in CartItemIds, q \in ReturnQuantities :
               (last'.op = "return_item" /\ return_cart_item(A, n, q))
                   => C30_Isolated(A)
         /\ (last'.op = "clear_cart" /\ clear_cart(A)) => C30_Isolated(A)]_vars

\* update_item has succeeded while two carts each hold a row.
C30_Witness ==
    /\ last = [op |-> "update_item", code |-> "ok"]
    /\ \E r, x \in cart_items : r.cart_id # x.cart_id
====
